---- MODULE Spec2Model ----
(***************************************************************************)
(* Session timer and limit enforcement engine of the focus_me extension    *)
(* (src/background.js) together with the polling side of its page agent    *)
(* (src/blocker.js).                                                        *)
(*                                                                         *)
(* The service worker is an event loop: every listener runs synchronously  *)
(* up to its next `await` on chrome.storage.local and is resumed when the  *)
(* storage operation has completed.  A step of the model is one such       *)
(* resumption: the awaited storage operation takes effect and the code     *)
(* after it runs up to the next awaited storage operation.  Continuations  *)
(* of different listeners interleave freely.                               *)
(***************************************************************************)
EXTENDS Integers, FiniteSets, Bags, TLC

\* ------------------------------------------------------------------ bounds
MaxAdvances == 3   \* clock steps taken by a behaviour
MaxInFlight == 2   \* continuations pending when a further event is accepted
MaxEvents == 3     \* events delivered by a behaviour of Spec
MaxSeqEvents == 4  \* events delivered by a behaviour of SpecSeq and SpecQuiet

\* --------------------------------------------------------------- constants
MIN_TO_MS == 60 * 1000
DAY_MS == 24 * 60 * MIN_TO_MS          \* one ISO date (toISOString, UTC)
Quantum == MIN_TO_MS \div 2            \* granularity of the modelled clock
StartMs == DAY_MS - 2 * Quantum        \* the engine is installed at 23:59:00
NULL == -1                             \* JavaScript null / undefined
NoTab == 0                             \* message.tabId missing (falsy)
NoSender == -2                         \* sender.tab undefined (not sent from a tab)

Tabs == {1, 2}
Categories == {"trash", "interesting", "curriculum", "phd"}
UsedCategories == {"trash", "interesting"}   \* what the popup is made to send

\* Minutes are kept in half minutes, so that 0.5 is representable.
DEFAULT_LIMITS ==
  [c \in Categories |->
     CASE c = "trash" -> 1
       [] c = "interesting" -> 60
       [] c = "curriculum" -> 120
       [] c = "phd" -> 19998]

\* What the settings editor can have written under SETTINGS_KEY.
NoSettings == [saved |-> FALSE, hasLimits |-> FALSE, limits |-> [c \in Categories |-> NULL]]
EditedSettings ==
  [saved |-> TRUE, hasLimits |-> TRUE,
   limits |-> [c \in Categories |->
                 CASE c = "trash" -> 2
                   [] c = "interesting" -> 1
                   [] c = "curriculum" -> 120
                   [] c = "phd" -> 19998]]
\* A record whose limits object has no entry for "trash".
PartialSettings ==
  [saved |-> TRUE, hasLimits |-> TRUE,
   limits |-> [c \in Categories |-> IF c = "trash" THEN NULL ELSE DEFAULT_LIMITS[c]]]
SettingsChoices == {EditedSettings, PartialSettings}

\* ------------------------------------------------------------------- state
VARIABLES
  now,            \* Date.now()
  activeTimers,   \* storage key "activeTimers": tab -> TimerState
  dailyStats,     \* storage keys "YYYY-MM-DD": day -> category -> ms
  lastRunDate,    \* storage key "lastRunDate"
  savedSettings,  \* storage key "userSettings"
  userSettings,   \* the in-memory settings cache of the service worker
  inflight,       \* bag of suspended continuations (async call chains)
  out,            \* messages sent by the last step (responses, pushes)
  blocked,        \* the page agent's overlay, per tab
  ran,            \* ghost: wall-clock time the store showed a category running today
  events,         \* ghost: events delivered so far
  stopped,        \* ghost: tabs whose stop has completed, with no startTimer since
  anyPush         \* ghost: some pushed command has reached an agent

vars == <<now, activeTimers, dailyStats, lastRunDate, savedSettings,
          userSettings, inflight, out, blocked, ran, events, stopped, anyPush>>
store == <<activeTimers, dailyStats, lastRunDate, savedSettings>>

\* ----------------------------------------------------------------- helpers
Today(t) == t \div DAY_MS
Days == Today(StartMs) .. Today(StartMs + (MaxAdvances + 1) * Quantum)

ZeroStats == [c \in Categories |-> 0]
NoTimer == [category |-> "", totalTimeMs |-> 0, startTime |-> NULL]
NoTimers == [t \in Tabs |-> NoTimer]
Has(timers, tab) == tab \in Tabs /\ timers[tab].category # ""
Truthy(x) == x # NULL /\ x # 0

EmptyCache ==
  [limits |-> [c \in Categories |-> NULL], limitsInMs |-> [c \in Categories |-> NULL]]

ToMs(halfMinutes) ==
  IF halfMinutes = NULL THEN NULL ELSE (halfMinutes * MIN_TO_MS) \div 2

\* loadSettings: the cache computed from what is stored.
LoadSettings(s) ==
  LET lim == IF s.saved /\ s.hasLimits THEN s.limits ELSE DEFAULT_LIMITS
  IN [limits |-> lim, limitsInMs |-> [c \in Categories |-> ToMs(lim[c])]]

\* mutant: the cache is taken to be loaded without looking
SettingsLoaded_Always(us) == TRUE

\* ensureSettingsLoaded's probe: !userSettings.limitsInMs.trash
SettingsLoaded(us) == Truthy(us.limitsInMs["trash"])

\* mutant: a missing limit counts as a limit already reached
OverLimit_Undefined(timeSpent, timeLimit) == timeLimit = NULL \/ timeSpent >= timeLimit

\* mutant: the comparison made strict
OverLimit_Strict(timeSpent, timeLimit) == timeLimit # NULL /\ timeSpent > timeLimit

\* timeSpent >= timeLimit (false against undefined)
OverLimit(timeSpent, timeLimit) == timeLimit # NULL /\ timeSpent >= timeLimit

\* mutant: the over-limit branch starts the clock
TaintedTimer_Started(category) ==
  [category |-> category, totalTimeMs |-> 0, startTime |-> now]

TaintedTimer(category) ==
  [category |-> category, totalTimeMs |-> 0, startTime |-> NULL]
StartedTimer(category, t) ==
  [category |-> category, totalTimeMs |-> 0, startTime |-> t]

\* mutant: the pause forgets the interval that was running
Paused_NoFold(timer, t) == [timer EXCEPT !.startTime = NULL]

\* The pause arithmetic shared by pauseTimer, pauseAllTimers, stopTimerAndSave.
Paused(timer, t) ==
  IF Truthy(timer.startTime)
    THEN [timer EXCEPT !.totalTimeMs = @ + (t - timer.startTime), !.startTime = NULL]
    ELSE timer

\* mutant: a running timer counts only what it has already folded
CurrentTotalMs_Stored(timer, t) == timer.totalTimeMs

CurrentTotalMs(timer, t) ==
  timer.totalTimeMs + (IF Truthy(timer.startTime) THEN t - timer.startTime ELSE 0)

RECURSIVE LiveStats(_, _, _, _)
LiveStats(timers, S, category, t) ==
  IF S = {} THEN 0
  ELSE LET tab == CHOOSE x \in S : TRUE
       IN (IF timers[tab].category = category THEN CurrentTotalMs(timers[tab], t) ELSE 0)
          + LiveStats(timers, S \ {tab}, category, t)

\* getTodaysTotalStats, from the two values it read and Date.now().
GetTodaysTotalStats(savedStats, timers, t) ==
  [c \in Categories |-> savedStats[c] + LiveStats(timers, Tabs, c, t)]

\* A continuation.  Fields a handler does not use keep their defaults.
NewChain(h, pc, tab, category) ==
  [h |-> h, pc |-> pc, tab |-> tab, cat |-> category, cur |-> NoTab,
   today |-> NULL, saved |-> ZeroStats, total |-> ZeroStats,
   timers |-> NoTimers, copy |-> NoTimers, over |-> {}]

Pending == BagToSet(inflight)
Idle == inflight = EmptyBag
Goto(c, S) == inflight' = (inflight (-) SetToBag({c})) (+) SetToBag(S)
Spawn(S) == inflight' = inflight (+) SetToBag(S)

Quiet == out' = {}
\* An event is delivered to a listener.
Accept ==
  /\ BagCardinality(inflight) < MaxInFlight
  /\ events' = events + 1
  /\ UNCHANGED anyPush
StoreUnchanged == UNCHANGED <<activeTimers, dailyStats, lastRunDate, savedSettings>>

Response(h, tab, msg) == [kind |-> "sendResponse", h |-> h, tab |-> tab, msg |-> msg]
Evicted == [kind |-> "evicted", h |-> "", tab |-> NoTab, msg |-> ""]
\* The listener throws before it answers (reading a property of undefined).
Raised(h, tab) == [kind |-> "TypeError", h |-> h, tab |-> tab, msg |-> ""]
PushBlock(tab, delivered) ==
  [kind |-> "tabs.sendMessage", h |-> "blockVideo", tab |-> tab,
   msg |-> IF delivered THEN "delivered" ELSE "lost"]

\* ------------------------------------------------------------- page agent
\* blocker.js: the runtime.onMessage listener (a pushed command that arrives).
AgentOnPush(b, tab, delivered) ==
  IF delivered THEN [b EXCEPT ![tab] = TRUE] ELSE b

\* blocker.js: runHandshake's callback on the answer to checkMyStatus.
AgentOnAnswer(b, tab, msg) ==
  IF msg = "blockVideo" THEN [b EXCEPT ![tab] = TRUE] ELSE b

\* checkMyStatus: the action sent for a categorized tab, and for a tab without timer
Answer(overLimit) == IF overLimit THEN "blockVideo" ELSE "unblockVideo"
\* mutant: a tab without timer is told to block
NotCategorizedAnswer_Block == "blockVideo"

NotCategorizedAnswer == "unblockVideo"

\* ------------------------------------------------------------------- Init
Init ==
  /\ now = StartMs
  /\ activeTimers = NoTimers
  /\ dailyStats = [d \in Days |-> ZeroStats]
  /\ lastRunDate = NULL
  /\ savedSettings = NoSettings
  /\ userSettings = EmptyCache
  /\ inflight = SetToBag({NewChain("loadSettings", "load", NoTab, "")})  \* onInstalled
  /\ out = {}
  /\ blocked = [t \in Tabs |-> FALSE]
  /\ ran = ZeroStats
  /\ events = 0
  /\ stopped = {}
  /\ anyPush = FALSE

\* ------------------------------------------------- ensureSettingsLoaded
\* The code that follows `await ensureSettingsLoaded()` in each caller, up to
\* its next storage operation.
AfterEnsure(c) ==
  CASE c.h = "loadSettings" -> {}
    [] c.h = "startTimer" ->
         IF c.tab = NoTab THEN {}
         ELSE {[c EXCEPT !.pc = "gt1", !.today = Today(now)]}
    [] c.h = "checkMyStatus" -> {[c EXCEPT !.pc = "cs_get"]}
    [] c.h = "getLiveStats" -> {[c EXCEPT !.pc = "gt1", !.today = Today(now)]}
    [] c.h = "resumeTimer" -> {[c EXCEPT !.pc = "gt1", !.today = Today(now)]}
    [] c.h = "onAlarm" ->
         {[c EXCEPT !.h = "resetFlagsOnNewDay", !.pc = "rf_get", !.today = Today(now)],
          [c EXCEPT !.h = "proactivelyCheckLimits", !.pc = "gt1", !.today = Today(now)]}

EnsureSettingsLoaded(c) ==
  IF SettingsLoaded(userSettings) THEN AfterEnsure(c) ELSE {[c EXCEPT !.pc = "load"]}

\* loadSettings resumes: the cache is rebuilt from the stored settings.
LoadSettingsDone(c) ==
  /\ c.pc = "load"
  /\ userSettings' = LoadSettings(savedSettings)
  /\ Goto(c, AfterEnsure(c))
  /\ Quiet
  /\ UNCHANGED <<now, activeTimers, dailyStats, lastRunDate, savedSettings, blocked,
                 ran, events, stopped, anyPush>>

\* getTodaysTotalStats: storage.local.get(today) has answered.
TotalStatsSaved(c) ==
  /\ c.pc = "gt1"
  /\ Goto(c, {[c EXCEPT !.pc = "gt2", !.saved = dailyStats[c.today]]})
  /\ Quiet
  /\ UNCHANGED <<now, activeTimers, dailyStats, lastRunDate, savedSettings,
                 userSettings, blocked, ran, events, stopped, anyPush>>

\* ------------------------------------------------------------ pauseTimer
\* What the caller of `await pauseTimer(tabId)` does once it returns.
AfterPause(c) ==
  CASE c.h = "pauseTimer" ->
         /\ Goto(c, {})
         /\ Quiet
         /\ UNCHANGED <<blocked, anyPush>>
    [] c.h = "checkMyStatus" ->
         /\ Goto(c, {})
         /\ out' = {Response("checkMyStatus", c.tab, Answer(TRUE))}
         /\ blocked' = AgentOnAnswer(blocked, c.tab, Answer(TRUE))
         /\ UNCHANGED anyPush
    [] c.h = "proactivelyCheckLimits" ->
         \E delivered \in BOOLEAN :
           LET rest == {t \in Tabs : t > c.cur /\ Has(c.timers, t)
                                      /\ c.timers[t].category \in c.over}
               next == CHOOSE t \in rest : \A u \in rest : t <= u
           IN /\ out' = {PushBlock(c.cur, delivered)}
              /\ blocked' = AgentOnPush(blocked, c.cur, delivered)
              /\ anyPush' = (anyPush \/ delivered)
              /\ IF rest = {} THEN Goto(c, {})
                 ELSE Goto(c, {[c EXCEPT !.pc = "p_get", !.cur = next]})

PauseTimerRead(c) ==
  /\ c.pc = "p_get"
  /\ IF Has(activeTimers, c.cur) /\ Truthy(activeTimers[c.cur].startTime)
       THEN /\ Goto(c, {[c EXCEPT !.pc = "p_save",
                                  !.copy = [activeTimers EXCEPT ![c.cur] = Paused(@, now)]]})
            /\ Quiet
            /\ UNCHANGED <<blocked, anyPush>>
       ELSE AfterPause(c)
  /\ UNCHANGED <<now, activeTimers, dailyStats, lastRunDate, savedSettings, userSettings,
                 ran, events, stopped>>

PauseTimerSave(c) ==
  /\ c.pc = "p_save"
  /\ activeTimers' = c.copy
  /\ AfterPause(c)
  /\ UNCHANGED <<now, dailyStats, lastRunDate, savedSettings, userSettings, ran, events, stopped>>

\* ------------------------------------------------------------ startTimer
StartTimer(tab, category) ==
  /\ Accept
  /\ Spawn(EnsureSettingsLoaded(NewChain("startTimer", "", tab, category)))
  /\ stopped' = stopped \ {tab}
  /\ Quiet
  /\ UNCHANGED <<now, activeTimers, dailyStats, lastRunDate, savedSettings,
                 userSettings, blocked, ran>>

\* 1. "check if this category is already over the limit"
StartTimerCheck(c) ==
  /\ c.h = "startTimer" /\ c.pc = "gt2"
  /\ LET totalStats == GetTodaysTotalStats(c.saved, activeTimers, now)
     IN IF OverLimit(totalStats[c.cat], userSettings.limitsInMs[c.cat])
          THEN Goto(c, {[c EXCEPT !.pc = "st_ov_get"]})
          ELSE Goto(c, {[c EXCEPT !.pc = "st_get"]})
  /\ Quiet
  /\ UNCHANGED <<now, activeTimers, dailyStats, lastRunDate, savedSettings,
                 userSettings, blocked, ran, events, stopped, anyPush>>

\* mutant: the over-limit branch blocks without recording the tab
Tainted_NotWritten(timers, tab, category) == timers

\* mutant: the over-limit branch also pauses every other timer
Tainted_PauseOthers(timers, tab, category) ==
  [x \in Tabs |-> IF x = tab THEN TaintedTimer(category) ELSE Paused(timers[x], now)]

\* activeTimers[tabId] = {category, totalTimeMs: 0, startTime: null}
Tainted(timers, tab, category) == [timers EXCEPT ![tab] = TaintedTimer(category)]

\* 2. over the limit: the tab is tainted in the copy just read
StartTimerTaint(c) ==
  /\ c.pc = "st_ov_get"
  /\ Goto(c, {[c EXCEPT !.pc = "st_ov_save",
                        !.timers = Tainted(activeTimers, c.tab, c.cat)]})
  /\ Quiet
  /\ UNCHANGED <<now, activeTimers, dailyStats, lastRunDate, savedSettings,
                 userSettings, blocked, ran, events, stopped, anyPush>>

\* mutant: a command that could not be delivered takes the tab's entry back
AfterPush_Rollback(timers, tab, delivered) ==
  IF delivered THEN timers ELSE [timers EXCEPT ![tab] = NoTimer]

\* The callback of tabs.sendMessage: chrome.runtime.lastError is logged and
\* the timer map that was saved stays as it is.
AfterPush(timers, tab, delivered) == timers

StartTimerBlocked(c) ==
  /\ c.pc = "st_ov_save"
  /\ \E delivered \in BOOLEAN :
       /\ activeTimers' = AfterPush(c.timers, c.tab, delivered)
       /\ out' = {PushBlock(c.tab, delivered), Response("startTimer", c.tab, "blocked:true")}
       /\ blocked' = AgentOnPush(blocked, c.tab, delivered)
       /\ anyPush' = (anyPush \/ delivered)
  /\ Goto(c, {})
  /\ UNCHANGED <<now, dailyStats, lastRunDate, savedSettings, userSettings, ran, events, stopped>>

\* 3. under the limit: "if (activeTimers[tabId])", else pauseAllTimers(tabId)
StartTimerLookup(c) ==
  /\ c.pc = "st_get"
  /\ IF Has(activeTimers, c.tab)
       THEN /\ Goto(c, {})
            /\ out' = {Response("startTimer", c.tab, "Timer already running.")}
       ELSE /\ Goto(c, {[c EXCEPT !.pc = "pa_get", !.timers = activeTimers]})
            /\ Quiet
  /\ UNCHANGED <<now, activeTimers, dailyStats, lastRunDate, savedSettings,
                 userSettings, blocked, ran, events, stopped, anyPush>>

\* pauseAllTimers(exceptTabId) on the copy it read itself
PauseAll(timers, exceptTabId, t) ==
  [x \in Tabs |-> IF x = exceptTabId THEN timers[x] ELSE Paused(timers[x], t)]

\* the handler's own copy, made before pauseAllTimers ran, gets the new timer
WithStarted(c) ==
  [c EXCEPT !.pc = "st_save",
            !.timers = [c.timers EXCEPT ![c.tab] = StartedTimer(c.cat, now)]]

PauseAllRead(c) ==
  /\ c.pc = "pa_get"
  /\ LET paused == PauseAll(activeTimers, c.tab, now)
     IN IF paused # activeTimers
          THEN Goto(c, {[c EXCEPT !.pc = "pa_save", !.copy = paused]})
          ELSE Goto(c, {WithStarted(c)})
  /\ Quiet
  /\ UNCHANGED <<now, activeTimers, dailyStats, lastRunDate, savedSettings,
                 userSettings, blocked, ran, events, stopped, anyPush>>

PauseAllSave(c) ==
  /\ c.pc = "pa_save"
  /\ activeTimers' = c.copy
  /\ Goto(c, {WithStarted(c)})
  /\ Quiet
  /\ UNCHANGED <<now, dailyStats, lastRunDate, savedSettings, userSettings, blocked,
                 ran, events, stopped, anyPush>>

StartTimerSave(c) ==
  /\ c.pc = "st_save"
  /\ activeTimers' = c.timers
  /\ Goto(c, {})
  /\ out' = {Response("startTimer", c.tab, "blocked:false")}
  /\ UNCHANGED <<now, dailyStats, lastRunDate, savedSettings, userSettings, blocked,
                 ran, events, stopped, anyPush>>

\* --------------------------------------------------------- checkMyStatus
\* The agent's handshake reaches the engine (sender.tab.id = tab).
CheckMyStatus(tab) ==
  /\ Accept
  /\ Spawn(EnsureSettingsLoaded(NewChain("checkMyStatus", "", tab, "")))
  /\ UNCHANGED stopped

\* blocker.js: setInterval(runHandshake, 5000)
AgentPoll(tab) ==
  /\ CheckMyStatus(tab)
  /\ Quiet
  /\ UNCHANGED <<now, activeTimers, dailyStats, lastRunDate, savedSettings,
                 userSettings, blocked, ran>>

\* blocker.js: yt-navigate-finish: unblockVideo(), then runHandshake()
AgentNavigate(tab) ==
  /\ CheckMyStatus(tab)
  /\ blocked' = [blocked EXCEPT ![tab] = FALSE]
  /\ Quiet
  /\ UNCHANGED <<now, activeTimers, dailyStats, lastRunDate, savedSettings,
                 userSettings, ran>>

\* A checkMyStatus message without a usable sender: "const tabId =
\* sender.tab.id" throws when sender.tab is undefined; a falsy id is answered.
CheckMyStatusNoSurface(sender) ==
  /\ Accept
  /\ out' = IF sender = NoSender
              THEN {Raised("checkMyStatus", sender)}
              ELSE {Response("checkMyStatus", sender, "unblockVideo")}
  /\ UNCHANGED <<now, activeTimers, dailyStats, lastRunDate, savedSettings,
                 userSettings, inflight, blocked, ran, stopped>>

\* 2./3. "Get the timer for this tab"; uncategorized tabs are not blocked
CheckMyStatusLookup(c) ==
  /\ c.pc = "cs_get"
  /\ IF ~Has(activeTimers, c.tab)
       THEN /\ Goto(c, {})
            /\ out' = {Response("checkMyStatus", c.tab, NotCategorizedAnswer)}
            /\ blocked' = AgentOnAnswer(blocked, c.tab, NotCategorizedAnswer)
       ELSE /\ Goto(c, {[c EXCEPT !.pc = "gt1", !.today = Today(now),
                                  !.cat = activeTimers[c.tab].category]})
            /\ Quiet
            /\ UNCHANGED blocked
  /\ UNCHANGED <<now, activeTimers, dailyStats, lastRunDate, savedSettings, userSettings,
                 ran, events, stopped, anyPush>>

\* 4./5. compare the category's total with its limit
CheckMyStatusCheck(c) ==
  /\ c.h = "checkMyStatus" /\ c.pc = "gt2"
  /\ LET totalStats == GetTodaysTotalStats(c.saved, activeTimers, now)
     IN IF OverLimit(totalStats[c.cat], userSettings.limitsInMs[c.cat])
          THEN /\ Goto(c, {[c EXCEPT !.pc = "p_get", !.cur = c.tab]})
               /\ Quiet
               /\ UNCHANGED blocked
          ELSE /\ Goto(c, {})
               /\ out' = {Response("checkMyStatus", c.tab, Answer(FALSE))}
               /\ blocked' = AgentOnAnswer(blocked, c.tab, Answer(FALSE))
  /\ UNCHANGED <<now, activeTimers, dailyStats, lastRunDate, savedSettings, userSettings,
                 ran, events, stopped, anyPush>>

\* ---------------------------------------------- getLiveStats, getTabStatus
GetLiveStats ==
  /\ Accept
  /\ Spawn(EnsureSettingsLoaded(NewChain("getLiveStats", "", NoTab, "")))
  /\ Quiet
  /\ UNCHANGED <<now, activeTimers, dailyStats, lastRunDate, savedSettings,
                 userSettings, blocked, ran, stopped>>

\* mutant: the query saves the timer map with every timer paused
LiveStatsAnswer_Pausing(c) ==
  /\ c.h = "getLiveStats" /\ c.pc = "gt2"
  /\ Goto(c, {})
  /\ out' = {Response("getLiveStats", c.tab, "stats")}
  /\ activeTimers' = PauseAll(activeTimers, NoTab, now)
  /\ UNCHANGED <<now, dailyStats, lastRunDate, savedSettings,
                 userSettings, blocked, ran, events, stopped, anyPush>>

\* getLiveStats: getTodaysTotalStats() has returned; stats and limits are sent
LiveStatsAnswer(c) ==
  /\ c.h = "getLiveStats" /\ c.pc = "gt2"
  /\ Goto(c, {})
  /\ out' = {Response("getLiveStats", c.tab, "stats")}
  /\ UNCHANGED <<now, activeTimers, dailyStats, lastRunDate, savedSettings,
                 userSettings, blocked, ran, events, stopped, anyPush>>

\* mutant: the popup is always told the tab has no category
TabStatusAnswer_Null(timers, tab) == "null"

\* getTabStatus: timer.category, or null
TabStatusAnswer(timers, tab) ==
  IF Has(timers, tab) THEN timers[tab].category ELSE "null"

\* getTabStatus: a missing tabId is answered at once, else the map is read
GetTabStatus(tab) ==
  /\ Accept
  /\ IF tab = NoTab
       THEN /\ out' = {Response("getTabStatus", tab, "null")}
            /\ UNCHANGED inflight
       ELSE /\ Spawn({NewChain("getTabStatus", "ts_get", tab, "")})
            /\ Quiet
  /\ UNCHANGED <<now, activeTimers, dailyStats, lastRunDate, savedSettings,
                 userSettings, blocked, ran, stopped>>

TabStatusRead(c) ==
  /\ c.pc = "ts_get"
  /\ Goto(c, {})
  /\ out' = {Response("getTabStatus", c.tab, TabStatusAnswer(activeTimers, c.tab))}
  /\ UNCHANGED <<now, activeTimers, dailyStats, lastRunDate, savedSettings,
                 userSettings, blocked, ran, events, stopped, anyPush>>

\* -------------------------------------------------------- stopTimerAndSave
\* tabs.onRemoved, and tabs.onUpdated with changeInfo.url
TabEvent(h, tab) ==
  /\ Accept
  /\ Spawn({NewChain(h, "ev_get", tab, "")})
  /\ UNCHANGED stopped
  /\ Quiet
  /\ UNCHANGED <<now, activeTimers, dailyStats, lastRunDate, savedSettings,
                 userSettings, blocked, ran>>

OnRemoved(tab) == TabEvent("stopTimerAndSave", tab)
OnUpdated(tab) == TabEvent("stopTimerAndSave", tab)

\* "if (activeTimers[tabId]) await stopTimerAndSave(tabId)"
TabEventLookup(c) ==
  /\ c.pc = "ev_get"
  /\ IF Has(activeTimers, c.tab)
       THEN Goto(c, {[c EXCEPT !.pc = "sp_get"]}) /\ UNCHANGED stopped
       ELSE Goto(c, {}) /\ stopped' = stopped \cup {c.tab}
  /\ Quiet
  /\ UNCHANGED <<now, activeTimers, dailyStats, lastRunDate, savedSettings,
                 userSettings, blocked, ran, events, anyPush>>

\* mutant: the stopped tab's entry is left in the map
Deleted_Kept(timers, tab) == timers

\* delete activeTimers[tabId]
Deleted(timers, tab) == [timers EXCEPT ![tab] = NoTimer]

\* stopTimerAndSave: the timer map was read; "pause one last time"
StopRead(c) ==
  /\ c.pc = "sp_get"
  /\ stopped' = IF Has(activeTimers, c.tab) THEN stopped ELSE stopped \cup {c.tab}
  /\ IF ~Has(activeTimers, c.tab)
       THEN Goto(c, {})
       ELSE LET timerData == Paused(activeTimers[c.tab], now)
                folded == [activeTimers EXCEPT ![c.tab] = timerData]
            IN IF timerData.totalTimeMs > 0
                 THEN Goto(c, {[c EXCEPT !.pc = "sp_stats", !.timers = folded,
                                         !.cat = timerData.category,
                                         !.today = Today(now)]})
                 ELSE Goto(c, {[c EXCEPT !.pc = "sp_save",
                                         !.timers = Deleted(folded, c.tab)]})
  /\ Quiet
  /\ UNCHANGED <<now, activeTimers, dailyStats, lastRunDate, savedSettings,
                 userSettings, blocked, ran, events, anyPush>>

\* mutant: the fold replaces the day's total instead of adding to it
Folded_Overwrite(todaysStats, category, totalDurationMs) ==
  [todaysStats EXCEPT ![category] = totalDurationMs]

\* todaysStats[category] += totalDurationMs, on the record just read
Folded(todaysStats, category, totalDurationMs) ==
  [todaysStats EXCEPT ![category] = @ + totalDurationMs]

StopStatsRead(c) ==
  /\ c.pc = "sp_stats"
  /\ Goto(c, {[c EXCEPT !.pc = "sp_fold",
                        !.saved = Folded(dailyStats[c.today], c.cat,
                                         c.timers[c.tab].totalTimeMs)]})
  /\ Quiet
  /\ UNCHANGED <<now, activeTimers, dailyStats, lastRunDate, savedSettings,
                 userSettings, blocked, ran, events, stopped, anyPush>>

StopStatsSave(c) ==
  /\ c.pc = "sp_fold"
  /\ dailyStats' = [dailyStats EXCEPT ![c.today] = c.saved]
  /\ Goto(c, {[c EXCEPT !.pc = "sp_save", !.timers = Deleted(c.timers, c.tab)]})
  /\ Quiet
  /\ UNCHANGED <<now, activeTimers, lastRunDate, savedSettings, userSettings, blocked,
                 ran, events, stopped, anyPush>>

StopSave(c) ==
  /\ c.pc = "sp_save"
  /\ activeTimers' = c.timers
  /\ stopped' = stopped \cup {c.tab}
  /\ Goto(c, {})
  /\ Quiet
  /\ UNCHANGED <<now, dailyStats, lastRunDate, savedSettings, userSettings, blocked, ran,
                 events, anyPush>>

\* ------------------------------------------------------- tabs.onActivated
OnActivated(tab) ==
  /\ Accept
  /\ Spawn({NewChain("onActivated", "ac_get", tab, "")})
  /\ UNCHANGED stopped
  /\ Quiet
  /\ UNCHANGED <<now, activeTimers, dailyStats, lastRunDate, savedSettings,
                 userSettings, blocked, ran>>

\* Promise.all over the keys of the map just read: resumeTimer for the
\* activated tab, pauseTimer for every other one, each up to its own read.
OnActivatedFork(c) ==
  /\ c.pc = "ac_get"
  /\ Goto(c, {IF t = c.tab
                THEN [c EXCEPT !.h = "resumeTimer", !.pc = "rs_get"]
                ELSE [c EXCEPT !.h = "pauseTimer", !.pc = "p_get", !.cur = t]
              : t \in {x \in Tabs : Has(activeTimers, x)}})
  /\ Quiet
  /\ UNCHANGED <<now, activeTimers, dailyStats, lastRunDate, savedSettings,
                 userSettings, blocked, ran, events, stopped, anyPush>>

ResumeRead(c) ==
  /\ c.pc = "rs_get"
  /\ IF Has(activeTimers, c.tab) /\ activeTimers[c.tab].startTime = NULL
       THEN Goto(c, EnsureSettingsLoaded([c EXCEPT !.timers = activeTimers,
                                                   !.cat = activeTimers[c.tab].category]))
       ELSE Goto(c, {})
  /\ Quiet
  /\ UNCHANGED <<now, activeTimers, dailyStats, lastRunDate, savedSettings,
                 userSettings, blocked, ran, events, stopped, anyPush>>

\* mutant: resumeTimer without its safety check
ResumeDenied_Never(timeSpent, timeLimit) == FALSE

\* resumeTimer: "Resume denied": if (timeSpent >= timeLimit)
ResumeDenied(timeSpent, timeLimit) == OverLimit(timeSpent, timeLimit)

\* "Before resuming, check if the category is over limit"
ResumeCheck(c) ==
  /\ c.h = "resumeTimer" /\ c.pc = "gt2"
  /\ LET totalStats == GetTodaysTotalStats(c.saved, activeTimers, now)
     IN IF ResumeDenied(totalStats[c.cat], userSettings.limitsInMs[c.cat])
          THEN \E delivered \in BOOLEAN :
                 /\ Goto(c, {})
                 /\ out' = {PushBlock(c.tab, delivered)}
                 /\ blocked' = AgentOnPush(blocked, c.tab, delivered)
                 /\ anyPush' = (anyPush \/ delivered)
          ELSE /\ Goto(c, {[c EXCEPT !.pc = "rs_save",
                                     !.timers = [c.timers EXCEPT ![c.tab].startTime = now]]})
               /\ Quiet
               /\ UNCHANGED <<blocked, anyPush>>
  /\ UNCHANGED <<now, activeTimers, dailyStats, lastRunDate, savedSettings, userSettings,
                 ran, events, stopped>>

ResumeSave(c) ==
  /\ c.pc = "rs_save"
  /\ activeTimers' = c.timers
  /\ Goto(c, {})
  /\ Quiet
  /\ UNCHANGED <<now, dailyStats, lastRunDate, savedSettings, userSettings, blocked,
                 ran, events, stopped, anyPush>>

\* ------------------------------------------------------- the periodic tick
\* alarms.onAlarm("checkLimits"): resetFlagsOnNewDay() and
\* proactivelyCheckLimits() are both called without await.
OnAlarm ==
  /\ Accept
  /\ Spawn(EnsureSettingsLoaded(NewChain("onAlarm", "", NoTab, "")))
  /\ UNCHANGED stopped
  /\ Quiet
  /\ UNCHANGED <<now, activeTimers, dailyStats, lastRunDate, savedSettings,
                 userSettings, blocked, ran>>

ResetFlagsRead(c) ==
  /\ c.pc = "rf_get"
  /\ IF lastRunDate # c.today
       THEN Goto(c, {[c EXCEPT !.pc = "rf_set"]})
       ELSE Goto(c, {})
  /\ Quiet
  /\ UNCHANGED <<now, activeTimers, dailyStats, lastRunDate, savedSettings,
                 userSettings, blocked, ran, events, stopped, anyPush>>

ResetFlagsSave(c) ==
  /\ c.pc = "rf_set"
  /\ lastRunDate' = c.today
  /\ Goto(c, {})
  /\ Quiet
  /\ UNCHANGED <<now, activeTimers, dailyStats, savedSettings, userSettings, blocked,
                 ran, events, stopped, anyPush>>

\* proactivelyCheckLimits: getTodaysTotalStats() has returned
SweepTotals(c) ==
  /\ c.h = "proactivelyCheckLimits" /\ c.pc = "gt2"
  /\ Goto(c, {[c EXCEPT !.pc = "pc_get",
                        !.total = GetTodaysTotalStats(c.saved, activeTimers, now)]})
  /\ Quiet
  /\ UNCHANGED <<now, activeTimers, dailyStats, lastRunDate, savedSettings,
                 userSettings, blocked, ran, events, stopped, anyPush>>

\* mutant: the sweep compares with the default limits, not the loaded ones
OverLimitCategories_Defaults(totalStats, limitsInMs) ==
  {cat \in Categories : totalStats[cat] >= ToMs(DEFAULT_LIMITS[cat])}

\* mutant: the sweep takes every category to be over its limit
OverLimitCategories_All(totalStats, limitsInMs) == Categories

\* mutant: the sweep compares strictly
OverLimitCategories_Strict(totalStats, limitsInMs) ==
  {cat \in Categories : limitsInMs[cat] # NULL /\ totalStats[cat] > limitsInMs[cat]}

\* "for (const category in limitsInMs)": the categories at or over their limit
OverLimitCategories(totalStats, limitsInMs) ==
  {cat \in Categories : limitsInMs[cat] # NULL /\ totalStats[cat] >= limitsInMs[cat]}

\* getActiveTimers() has returned: the first timer of an over-limit category
SweepRead(c) ==
  /\ c.pc = "pc_get"
  /\ LET over == OverLimitCategories(c.total, userSettings.limitsInMs)
         hit == {t \in Tabs : Has(activeTimers, t) /\ activeTimers[t].category \in over}
         first == CHOOSE t \in hit : \A u \in hit : t <= u
     IN IF hit = {}
          THEN Goto(c, {})
          ELSE Goto(c, {[c EXCEPT !.pc = "p_get", !.timers = activeTimers,
                                  !.over = over, !.cur = first]})
  /\ Quiet
  /\ UNCHANGED <<now, activeTimers, dailyStats, lastRunDate, savedSettings,
                 userSettings, blocked, ran, events, stopped, anyPush>>

\* ------------------------------------------------------------ environment
RunningIn(timers, category) ==
  {t \in Tabs : timers[t].category = category /\ Truthy(timers[t].startTime)}

\* Wall-clock time passes.
Advance ==
  /\ now < StartMs + MaxAdvances * Quantum
  /\ now' = now + Quantum
  /\ ran' = IF Today(now') # Today(now) THEN ZeroStats
            ELSE [c \in Categories |->
                    ran[c] + Quantum * Cardinality(RunningIn(activeTimers, c))]
  /\ Quiet
  /\ UNCHANGED <<activeTimers, dailyStats, lastRunDate, savedSettings,
                 userSettings, inflight, blocked, events, stopped, anyPush>>

\* mutant: the change of the settings is not followed by a reload
SaveSettings_NoReload(s) ==
  /\ s # savedSettings
  /\ Accept
  /\ savedSettings' = s
  /\ UNCHANGED stopped
  /\ Quiet
  /\ UNCHANGED <<now, activeTimers, dailyStats, lastRunDate, userSettings, inflight,
                 blocked, ran>>

\* The settings editor saves; storage.onChanged calls loadSettings().
SaveSettings(s) ==
  /\ s # savedSettings
  /\ Accept
  /\ savedSettings' = s
  /\ Spawn({NewChain("loadSettings", "load", NoTab, "")})
  /\ UNCHANGED stopped
  /\ Quiet
  /\ UNCHANGED <<now, activeTimers, dailyStats, lastRunDate, userSettings, blocked, ran>>

\* The service worker is evicted: memory and suspended continuations are lost.
Restart ==
  /\ userSettings # EmptyCache \/ ~Idle
  /\ userSettings' = EmptyCache
  /\ inflight' = EmptyBag
  /\ out' = {Evicted}
  /\ UNCHANGED <<now, activeTimers, dailyStats, lastRunDate, savedSettings, blocked,
                 ran, events, stopped, anyPush>>

\* ------------------------------------------------------------------- Next
Resume(c) ==
  \/ LoadSettingsDone(c)
  \/ TotalStatsSaved(c)
  \/ PauseTimerRead(c)
  \/ PauseTimerSave(c)
  \/ StartTimerCheck(c)
  \/ StartTimerTaint(c)
  \/ StartTimerBlocked(c)
  \/ StartTimerLookup(c)
  \/ PauseAllRead(c)
  \/ PauseAllSave(c)
  \/ StartTimerSave(c)
  \/ CheckMyStatusLookup(c)
  \/ CheckMyStatusCheck(c)
  \/ TabEventLookup(c)
  \/ StopRead(c)
  \/ StopStatsRead(c)
  \/ StopStatsSave(c)
  \/ StopSave(c)
  \/ OnActivatedFork(c)
  \/ ResumeRead(c)
  \/ ResumeCheck(c)
  \/ ResumeSave(c)
  \/ ResetFlagsRead(c)
  \/ ResetFlagsSave(c)
  \/ SweepTotals(c)
  \/ SweepRead(c)
  \/ LiveStatsAnswer(c)
  \/ TabStatusRead(c)

Event ==
  \/ \E tab \in Tabs \cup {NoTab}, category \in UsedCategories : StartTimer(tab, category)
  \/ \E tab \in Tabs : AgentPoll(tab)
  \/ \E tab \in Tabs : AgentNavigate(tab)
  \/ \E sender \in {NoTab, NoSender} : CheckMyStatusNoSurface(sender)
  \/ GetLiveStats
  \/ \E tab \in Tabs \cup {NoTab} : GetTabStatus(tab)
  \/ \E tab \in Tabs : OnRemoved(tab)
  \/ \E tab \in Tabs : OnUpdated(tab)
  \/ \E tab \in Tabs : OnActivated(tab)
  \/ OnAlarm
  \/ \E s \in SettingsChoices : SaveSettings(s)

Next ==
  \/ \E c \in Pending : Resume(c)
  \/ events < MaxEvents /\ Event
  \/ Advance
  \/ Restart

Spec == Init /\ [][Next]_vars

\* One event at a time: a further event is accepted only when every
\* continuation of the earlier ones has finished.
NextSeq ==
  \/ \E c \in Pending : Resume(c)
  \/ Idle /\ events < MaxSeqEvents /\ Event
  \/ Advance
  \/ Idle /\ Restart

SpecSeq == Init /\ [][NextSeq]_vars

\* One event at a time, each handled before the clock moves on.
NextQuiet ==
  \/ \E c \in Pending : Resume(c)
  \/ Idle /\ events < MaxSeqEvents /\ Event
  \/ Idle /\ Advance
  \/ Idle /\ Restart

SpecQuiet == Init /\ [][NextQuiet]_vars

\* One event at a time, except that tabs.onRemoved and tabs.onUpdated (several
\* tabs closing or navigating together) are also accepted while the only
\* handlers in flight are stops.
StopsInFlight == ~Idle /\ \A c \in Pending : c.h = "stopTimerAndSave"

NextStops ==
  \/ \E c \in Pending : Resume(c)
  \/ Idle /\ events < MaxSeqEvents /\ Event
  \/ /\ StopsInFlight /\ events < MaxSeqEvents
     /\ \E tab \in Tabs : OnRemoved(tab) \/ OnUpdated(tab)
  \/ Advance
  \/ Idle /\ Restart

SpecStops == Init /\ [][NextStops]_vars

\* One event at a time, each handled before the clock moves on, except that
\* the service worker may also be destroyed while a stop is in flight.
NextDeath ==
  \/ \E c \in Pending : Resume(c)
  \/ Idle /\ events < MaxSeqEvents /\ Event
  \/ Idle /\ Advance
  \/ (Idle \/ StopsInFlight) /\ Restart

SpecDeath == Init /\ [][NextDeath]_vars

\* ================================================================ claims
\* A continuation c of the present state is the one this step resumed.
Stepped(c) ==
  /\ c \in Pending
  /\ CopiesIn(c, inflight') < CopiesIn(c, inflight)
  /\ Evicted \notin out'

Running(timers) == {t \in Tabs : Has(timers, t) /\ Truthy(timers[t].startTime)}

\* budget[bucket]: the budget in force according to the stored settings
Budget(category) == LoadSettings(savedSettings).limitsInMs[category]

\* todaysTotals() called with date key `day` on the store as it is now
TotalsOn(day) == GetTodaysTotalStats(dailyStats[day], activeTimers, now)

AtOrOver(day, category) ==
  Budget(category) # NULL /\ TotalsOn(day)[category] >= Budget(category)

\* C1: single active timer: once every handler in flight has completed, at
\* most one TimerState of the stored timer map has a non-null startTime.
C1_SingleActiveTimer ==
  Idle => Cardinality(Running(activeTimers)) <= 1

\* C2: fail-closed start: a startTimer handler that finds its bucket at or
\* over budget takes the blocking branch, stores exactly the tainted
\* TimerState (totalTimeMs 0, startTime null) for its tab as its only write,
\* and answers {success: true, blocked: true}.
C2_FailClosedStart ==
  [][\A c \in Pending :
       (c.h = "startTimer" /\ Stepped(c)) =>
         /\ (c.pc = "gt2" /\ AtOrOver(c.today, c.cat)) =>
              /\ [c EXCEPT !.pc = "st_ov_get"] \in BagToSet(inflight')
              /\ UNCHANGED activeTimers
         /\ (c.pc = "st_ov_get") =>
              /\ \E d \in BagToSet(inflight') :
                   /\ d.pc = "st_ov_save" /\ d.tab = c.tab
                   /\ d.timers[c.tab] = [category |-> c.cat, totalTimeMs |-> 0,
                                         startTime |-> NULL]
              /\ UNCHANGED activeTimers
         /\ (c.pc = "st_ov_save") =>
              /\ activeTimers'[c.tab] = [category |-> c.cat, totalTimeMs |-> 0,
                                         startTime |-> NULL]
              /\ Response("startTimer", c.tab, "blocked:true") \in out'
              /\ inflight' = inflight (-) SetToBag({c})
    ]_vars

\* C2 witness: a start was answered blocked and its tab holds the tainted state.
C2_Witness ==
  \E t \in Tabs :
    /\ Response("startTimer", t, "blocked:true") \in out
    /\ Has(activeTimers, t)
    /\ activeTimers[t].totalTimeMs = 0 /\ activeTimers[t].startTime = NULL

\* C3: fail-open query: a checkMyStatus whose lookup finds no TimerState for
\* the asking tab is answered "unblockVideo" at once, whatever the totals and
\* budgets are, and nothing in the store changes.
C3_FailOpenQuery ==
  [][\A c \in Pending :
       (c.h = "checkMyStatus" /\ c.pc = "cs_get" /\ Stepped(c)
          /\ ~Has(activeTimers, c.tab)) =>
         /\ out' = {Response("checkMyStatus", c.tab, "unblockVideo")}
         /\ inflight' = inflight (-) SetToBag({c})
         /\ UNCHANGED store
    ]_vars

\* C3 witness: an unknown tab was answered "unblockVideo" while some bucket
\* is at or over its budget.
C3_Witness ==
  \E t \in Tabs :
    /\ Response("checkMyStatus", t, "unblockVideo") \in out
    /\ ~Has(activeTimers, t)
    /\ \E cat \in Categories : AtOrOver(Today(now), cat)

\* C4: status decision: for a tab with a TimerState of bucket b the answer is
\* "blockVideo" exactly when todaysTotals()[b] >= budget[b] at the check;
\* "unblockVideo" leaves the timer map alone; when "blockVideo" is sent the
\* tab's TimerState is stored paused with its running interval folded in.
C4_StatusDecision ==
  [][\A c \in Pending :
       (c.h = "checkMyStatus" /\ Stepped(c)) =>
         /\ (c.pc = "gt2" /\ ~AtOrOver(c.today, c.cat)) =>
              /\ out' = {Response("checkMyStatus", c.tab, "unblockVideo")}
              /\ UNCHANGED <<activeTimers, dailyStats>>
         /\ (c.pc = "gt2" /\ AtOrOver(c.today, c.cat)) =>
              /\ out' = {}
              /\ \E d \in BagToSet(inflight') : d.h = "checkMyStatus" /\ d.pc = "p_get"
         /\ (c.pc = "p_get" /\ c.tab \in Running(activeTimers)) =>
              /\ out' = {}
              /\ UNCHANGED activeTimers
              /\ \E d \in BagToSet(inflight') :
                   /\ d.h = "checkMyStatus" /\ d.pc = "p_save"
                   /\ d.copy[c.tab].startTime = NULL
                   /\ d.copy[c.tab].totalTimeMs
                        = activeTimers[c.tab].totalTimeMs + (now - activeTimers[c.tab].startTime)
         /\ (c.pc = "p_get" /\ c.tab \notin Running(activeTimers)) =>
              /\ out' = {Response("checkMyStatus", c.tab, "blockVideo")}
              /\ UNCHANGED activeTimers
              /\ Has(activeTimers, c.tab)
         /\ (c.pc = "p_save") =>
              /\ out' = {Response("checkMyStatus", c.tab, "blockVideo")}
              /\ activeTimers'[c.tab] = [activeTimers[c.tab] EXCEPT
                                           !.startTime = NULL,
                                           !.totalTimeMs = c.copy[c.tab].totalTimeMs]
              /\ \A t \in Tabs \ {c.tab} : activeTimers'[t] = activeTimers[t]
    ]_vars

\* C4 witness: a running timer was answered "blockVideo" and is stored paused
\* with time folded in.
C4_Witness ==
  \E t \in Tabs :
    /\ Response("checkMyStatus", t, "blockVideo") \in out
    /\ Has(activeTimers, t)
    /\ activeTimers[t].startTime = NULL
    /\ activeTimers[t].totalTimeMs > 0

\* C5: conservation of time: within the first day, once every handler has
\* completed, each bucket's folded DailyStats plus the time held by its
\* TimerStates equals the wall-clock time its TimerStates were running.
C5_ConservationOfTime ==
  (Idle /\ Today(now) = Today(StartMs)) =>
    \A cat \in Categories : TotalsOn(Today(now))[cat] = ran[cat]

\* C6: idempotent stop: the fold of a stop adds the tab's accrued time to
\* DailyStats once, and a stop invoked for a tab whose stop has already
\* completed changes neither DailyStats nor the timer map.
C6_IdempotentStop ==
  [][\A c \in Pending :
       (c.h = "stopTimerAndSave" /\ Stepped(c)) =>
         /\ (c.tab \in stopped) => UNCHANGED <<activeTimers, dailyStats>>
         /\ (c.pc = "sp_fold") =>
              /\ c.tab \notin stopped
              /\ dailyStats'[c.today][c.cat]
                   = dailyStats[c.today][c.cat] + c.timers[c.tab].totalTimeMs
              /\ \A d \in Days, cat \in Categories :
                   (d # c.today \/ cat # c.cat) =>
                     dailyStats'[d][cat] = dailyStats[d][cat]
    ]_vars

\* C6 witness: a second stop is in flight for the only tab that has had a
\* timer, after the first stop folded its time and removed its TimerState.
C6_Witness ==
  \E c \in Pending :
    /\ c.h = "stopTimerAndSave" /\ stopped = {c.tab}
    /\ \A t \in Tabs : ~Has(activeTimers, t)
    /\ \E d \in Days, cat \in Categories : dailyStats[d][cat] > 0

\* accumulatedMs summed over the TimerStates of a bucket
RECURSIVE AccumulatedIn(_, _, _)
AccumulatedIn(timers, S, category) ==
  IF S = {} THEN 0
  ELSE LET tab == CHOOSE x \in S : TRUE
       IN (IF timers[tab].category = category THEN timers[tab].totalTimeMs ELSE 0)
          + AccumulatedIn(timers, S \ {tab}, category)

\* C7: rollover conservation: when the tick stores a new LastRunDate in place
\* of an older one, the DailyStats record of the old date grows by each
\* bucket's accumulated time, every TimerState's accumulatedMs becomes 0, and
\* a running one keeps running with its clock restarted at the rollover.
C7_RolloverConservation ==
  [][\A c \in Pending :
       (c.pc = "rf_set" /\ Stepped(c) /\ lastRunDate # NULL) =>
         /\ \A cat \in Categories :
              dailyStats'[lastRunDate][cat]
                = dailyStats[lastRunDate][cat] + AccumulatedIn(activeTimers, Tabs, cat)
         /\ \A t \in Tabs :
              Has(activeTimers, t) =>
                /\ Has(activeTimers', t)
                /\ activeTimers'[t].totalTimeMs = 0
                /\ Truthy(activeTimers[t].startTime) => activeTimers'[t].startTime = now
    ]_vars

\* C8: budgets are per day: on a later day, after a tick has stored that
\* day as LastRunDate, a tab whose TimerState carries a full budget of time
\* from before the boundary, and whose bucket has run for less than the
\* budget today, is answered "unblockVideo" by checkMyStatus.
C8_BudgetsPerDay ==
  \A t \in Tabs :
    ( /\ Today(now) > Today(StartMs)
      /\ lastRunDate = Today(now)
      /\ Has(activeTimers, t)
      /\ Budget(activeTimers[t].category) # NULL
      /\ ran[activeTimers[t].category] < Budget(activeTimers[t].category)
      /\ activeTimers[t].totalTimeMs
           >= Budget(activeTimers[t].category) + ran[activeTimers[t].category] )
    => Response("checkMyStatus", t, "blockVideo") \notin out

\* C9: pull convergence: as long as no pushed command has reached an agent,
\* after each answer to checkMyStatus for a tab with a TimerState the agent
\* of that tab shows blocked exactly when the answer was "blockVideo".
C9_PullConvergence ==
  ~anyPush =>
    \A t \in Tabs :
      Has(activeTimers, t) =>
        /\ Response("checkMyStatus", t, "blockVideo") \in out => blocked[t]
        /\ Response("checkMyStatus", t, "unblockVideo") \in out => ~blocked[t]

C11_TickOrdering ==
  [][\A c \in Pending :
       (c.h = "proactivelyCheckLimits" /\ c.pc = "gt1" /\ Stepped(c)) =>
         \A d \in Pending : d.h # "resetFlagsOnNewDay"
    ]_vars

\* The messages whose sender waits for sendResponse.
Requests == {"startTimer", "getLiveStats", "checkMyStatus", "getTabStatus"}

\* C12: every inbound request gets an answer: a request handler that ends
\* sends a response to its caller in its last step, and an event handled
\* without any storage operation is answered at once.
C12_EveryRequestAnswered ==
  [][/\ \A c \in Pending :
          (c.h \in Requests /\ Stepped(c) /\ inflight' = inflight (-) SetToBag({c})) =>
            \E m \in out' : m.kind = "sendResponse" /\ m.h = c.h /\ m.tab = c.tab
     /\ (events' = events + 1 /\ inflight' = inflight /\ UNCHANGED store) =>
          \E m \in out' : m.kind = "sendResponse"
    ]_vars

\* C13: missing surface context: whatever the engine produces for a
\* checkMyStatus without an identifiable tab is the answer "unblockVideo".
C13_MissingSurface ==
  \A m \in out :
    (m.h = "checkMyStatus" /\ m.tab \notin Tabs) =>
      m = Response("checkMyStatus", m.tab, "unblockVideo")

\* C14: startTimer on an already-assigned surface: no step of a startTimer
\* handler for a tab that has a TimerState changes that TimerState, and the
\* handler ends with the answer "Timer already running.".
C14_AlreadyAssigned ==
  [][\A c \in Pending :
       (c.h = "startTimer" /\ Stepped(c) /\ Has(activeTimers, c.tab)) =>
         /\ activeTimers'[c.tab] = activeTimers[c.tab]
         /\ (inflight' = inflight (-) SetToBag({c})) =>
              out' = {Response("startTimer", c.tab, "Timer already running.")}
    ]_vars

\* C15: resume refusal: a resume whose check finds the bucket of its paused
\* TimerState at or over budget ends there: it sends blockVideo to the tab
\* and writes nothing, so startTime stays null; a check that finds the
\* bucket under budget goes on to the write, and that write is the only
\* step of a resume that makes a paused TimerState running.
C15_ResumeRefusal ==
  [][\A c \in Pending :
       (c.h = "resumeTimer" /\ Stepped(c)) =>
         /\ (c.pc = "gt2" /\ AtOrOver(c.today, c.cat)) =>
              /\ inflight' = inflight (-) SetToBag({c})
              /\ \E delivered \in BOOLEAN : out' = {PushBlock(c.tab, delivered)}
              /\ activeTimers[c.tab].startTime = NULL
              /\ UNCHANGED activeTimers
         /\ (c.pc = "gt2" /\ ~AtOrOver(c.today, c.cat)) =>
              /\ \E d \in BagToSet(inflight') : d.h = "resumeTimer" /\ d.pc = "rs_save"
              /\ UNCHANGED activeTimers
         /\ (c.pc # "rs_save") => UNCHANGED activeTimers
    ]_vars

\* C15 witness: on the activation of a tab whose bucket is at or over budget
\* the resume was refused: blockVideo was sent and the tab is still paused,
\* while the pause of the other tab is still in flight.
C15_Witness ==
  \E c \in Pending :
    /\ c.h = "pauseTimer"
    /\ \E delivered \in BOOLEAN : out = {PushBlock(c.tab, delivered)}
    /\ Has(activeTimers, c.tab)
    /\ activeTimers[c.tab].startTime = NULL
    /\ AtOrOver(Today(now), activeTimers[c.tab].category)

\* C16: no block without engine state: whenever a step sends blockVideo to a
\* tab or answers "blockVideo" to its status query, the stored timer map has
\* a TimerState for that tab, also when handlers interleave.
C16_NoBlockWithoutState ==
  \A m \in out :
    ( \/ m.kind = "tabs.sendMessage"
      \/ (m.kind = "sendResponse" /\ m.h = "checkMyStatus" /\ m.msg = "blockVideo") )
    => Has(activeTimers, m.tab)

\* The steps at which a handler reads budgets (or limits) from the cache.
ReadsBudgets(c) ==
  \/ c.pc = "gt2" /\ c.h \in {"startTimer", "checkMyStatus", "resumeTimer", "getLiveStats"}
  \/ c.pc = "pc_get"

\* C17: restart transparency: with the engine destroyed and recreated between
\* events, every handler step that reads budgets finds in the cache the
\* budgets derived from the stored settings, never the empty cache, so what
\* it answers and writes is determined by the store.
C17_RestartTransparency ==
  [][\A c \in Pending :
       (Stepped(c) /\ ReadsBudgets(c)) =>
         /\ userSettings # EmptyCache
         /\ userSettings = LoadSettings(savedSettings)
    ]_vars

\* C17 witness: after a restart emptied the cache, a request that reads
\* budgets waits for the settings, edited earlier, to be loaded again.
C17_Witness ==
  \E c \in Pending :
    /\ c.h \in {"startTimer", "checkMyStatus", "onAlarm"}
    /\ c.pc = "load"
    /\ userSettings = EmptyCache
    /\ savedSettings = EditedSettings

\* C18: hot reload: once settings with limits have been saved and the reload
\* has completed, every handler step that reads budgets finds each saved
\* limit converted from minutes to milliseconds, and a checkMyStatus for a
\* tab whose bucket total is below the saved limit answers "unblockVideo".
C18_HotReload ==
  [][\A c \in Pending :
       (Stepped(c) /\ ReadsBudgets(c) /\ savedSettings.saved /\ savedSettings.hasLimits) =>
         /\ \A cat \in Categories :
              savedSettings.limits[cat] # NULL =>
                2 * userSettings.limitsInMs[cat] = savedSettings.limits[cat] * MIN_TO_MS
         /\ ( /\ c.h = "checkMyStatus"
              /\ savedSettings.limits[c.cat] # NULL
              /\ 2 * TotalsOn(c.today)[c.cat] < savedSettings.limits[c.cat] * MIN_TO_MS )
            => out' = {Response("checkMyStatus", c.tab, "unblockVideo")}
    ]_vars

\* C18 witness: a tab blocked under the default budget, with that much time
\* on its TimerState, is answered "unblockVideo" after a higher limit was
\* saved.
C18_Witness ==
  \E t \in Tabs :
    /\ Response("checkMyStatus", t, "unblockVideo") \in out
    /\ blocked[t]
    /\ savedSettings = EditedSettings
    /\ Has(activeTimers, t)
    /\ 2 * activeTimers[t].totalTimeMs >= DEFAULT_LIMITS[activeTimers[t].category] * MIN_TO_MS
    /\ 2 * activeTimers[t].totalTimeMs
         < EditedSettings.limits[activeTimers[t].category] * MIN_TO_MS

\* C19: settings fallback: at every handler step that reads budgets, a bucket
\* for which the stored settings hold no limit (no record, no limits field,
\* or a limits field without that bucket) has its default budget.
C19_SettingsFallback ==
  [][\A c \in Pending :
       (Stepped(c) /\ ReadsBudgets(c)) =>
         \A cat \in Categories :
           ( \/ ~savedSettings.saved
             \/ ~savedSettings.hasLimits
             \/ savedSettings.limits[cat] = NULL )
           => 2 * userSettings.limitsInMs[cat] = DEFAULT_LIMITS[cat] * MIN_TO_MS
    ]_vars

\* C20: getTabStatus answers the category of the tab's TimerState in the
\* stored timer map when there is one (running, paused or tainted) and null
\* when there is none or no tab id was given, and writes nothing.
C20_TabStatus ==
  [][/\ \A c \in Pending :
          (c.h = "getTabStatus" /\ Stepped(c)) =>
            /\ out' = {Response("getTabStatus", c.tab,
                                 IF Has(activeTimers, c.tab)
                                   THEN activeTimers[c.tab].category ELSE "null")}
            /\ inflight' = inflight (-) SetToBag({c})
            /\ UNCHANGED store
     /\ \A m \in out' :
          (m.h = "getTabStatus" /\ m.tab \notin Tabs) =>
            m.msg = "null" /\ UNCHANGED store
    ]_vars

\* C20 witness: the popup was told the category of a tab whose TimerState is
\* not running.
C20_Witness ==
  \E t \in Tabs :
    /\ Has(activeTimers, t)
    /\ activeTimers[t].startTime = NULL
    /\ Response("getTabStatus", t, activeTimers[t].category) \in out

\* C21: startTimer under budget: the write that ends a startTimer handler on
\* its under-budget path stores the new tab's TimerState with totalTimeMs 0
\* and a running startTime, answers {success: true, blocked: false}, and
\* leaves every other TimerState as pauseAllTimers stored it: paused, with
\* the same totalTimeMs.
C21_StartUnderBudget ==
  [][\A c \in Pending :
       (c.h = "startTimer" /\ c.pc = "st_save" /\ Stepped(c)) =>
         /\ activeTimers'[c.tab].category = c.cat
         /\ activeTimers'[c.tab].totalTimeMs = 0
         /\ Truthy(activeTimers'[c.tab].startTime)
         /\ out' = {Response("startTimer", c.tab, "blocked:false")}
         /\ \A u \in Tabs \ {c.tab} :
              /\ activeTimers'[u] = activeTimers[u]
              /\ Has(activeTimers', u) => activeTimers'[u].startTime = NULL
    ]_vars

\* C22: surface activation: when the last continuation of a tabs.onActivated
\* handler for tab S has run, every TimerState other than S's is stored as
\* paused, and S's TimerState, if it has one, is running unless its category
\* is at or over its limit.
C22_SurfaceActivation ==
  [][\A c \in Pending :
       (c.h \in {"onActivated", "resumeTimer", "pauseTimer"} /\ Stepped(c) /\ Idle') =>
         /\ \A u \in Tabs \ {c.tab} :
              Has(activeTimers', u) => activeTimers'[u].startTime = NULL
         /\ (Has(activeTimers', c.tab)
               /\ ~(AtOrOver(Today(now), activeTimers[c.tab].category))')
              => Truthy(activeTimers'[c.tab].startTime)
    ]_vars

\* C23: pause: a pauseTimer that reads a running TimerState for its tab
\* prepares, and then stores, that TimerState with totalTimeMs increased by
\* exactly Date.now() - startTime and with startTime null; a pauseTimer that
\* reads a paused, tainted or absent TimerState ends without writing; and
\* pausing a paused TimerState again gives the same TimerState.
C23_Pause ==
  [][/\ \A c \in Pending :
          (c.pc = "p_get" /\ Stepped(c)) =>
            /\ UNCHANGED store
            /\ IF Has(activeTimers, c.cur) /\ activeTimers[c.cur].startTime # NULL
                 THEN \E d \in BagToSet(inflight') :
                        /\ d.pc = "p_save" /\ d.h = c.h /\ d.cur = c.cur
                        /\ d.copy[c.cur] =
                             [category |-> activeTimers[c.cur].category,
                              totalTimeMs |-> activeTimers[c.cur].totalTimeMs
                                                + (now - activeTimers[c.cur].startTime),
                              startTime |-> NULL]
                        /\ \A u \in Tabs \ {c.cur} : d.copy[u] = activeTimers[u]
                 ELSE \A d \in BagToSet(inflight') : d.pc = "p_save" => d \in Pending
     /\ \A c \in Pending :
          (c.pc = "p_save" /\ Stepped(c)) =>
            /\ activeTimers'[c.cur] = c.copy[c.cur]
            /\ activeTimers'[c.cur].startTime = NULL
            /\ UNCHANGED <<dailyStats, lastRunDate, savedSettings>>
     /\ \A t \in Tabs :
          Has(activeTimers, t) =>
            Paused(Paused(activeTimers[t], now), now') = Paused(activeTimers[t], now)
    ]_vars

\* C23 witness: a pauseTimer is about to store a TimerState it found running,
\* with a positive interval folded in.
C23_Witness ==
  \E c \in Pending :
    /\ c.pc = "p_save"
    /\ Truthy(activeTimers[c.cur].startTime)
    /\ c.copy[c.cur].startTime = NULL
    /\ c.copy[c.cur].totalTimeMs > activeTimers[c.cur].totalTimeMs

\* C24: stop: stopTimerAndSave on a tab with a TimerState takes as final time
\* T its totalTimeMs plus the interval still running.  When T > 0 it adds
\* exactly T to today's DailyStats entry of the TimerState's category and
\* changes no other entry; when T = 0 it goes straight to the removal and
\* never writes DailyStats.  Its last write removes the tab's TimerState and
\* leaves every other TimerState as it was.
C24_Stop ==
  [][\A c \in Pending :
       (c.h = "stopTimerAndSave" /\ Stepped(c)) =>
         /\ (c.pc = "sp_get" /\ Has(activeTimers, c.tab)) =>
              LET timer == activeTimers[c.tab]
                  T == timer.totalTimeMs
                         + (IF timer.startTime # NULL THEN now - timer.startTime ELSE 0)
              IN /\ UNCHANGED store
                 /\ \E d \in BagToSet(inflight') :
                      /\ d.h = c.h /\ d.tab = c.tab
                      /\ IF T > 0
                           THEN /\ d.pc = "sp_stats"
                                /\ d.cat = timer.category
                                /\ d.today = Today(now)
                                /\ d.timers[c.tab].totalTimeMs = T
                           ELSE /\ d.pc = "sp_save"
                                /\ ~Has(d.timers, c.tab)
         /\ (c.pc = "sp_stats") => UNCHANGED store
         /\ (c.pc = "sp_fold") =>
              /\ c.timers[c.tab].totalTimeMs > 0
              /\ dailyStats' =
                   [dailyStats EXCEPT ![c.today][c.cat] = @ + c.timers[c.tab].totalTimeMs]
              /\ UNCHANGED <<activeTimers, lastRunDate, savedSettings>>
         /\ (c.pc = "sp_save") =>
              /\ ~Has(activeTimers', c.tab)
              /\ \A u \in Tabs \ {c.tab} : activeTimers'[u] = activeTimers[u]
              /\ UNCHANGED <<dailyStats, lastRunDate, savedSettings>>
              /\ inflight' = inflight (-) SetToBag({c})
    ]_vars

\* C24 witness: every handler has completed, the stop of a tab has folded a
\* positive time into DailyStats and the tab has no TimerState any more.
C24_Witness ==
  /\ Idle
  /\ stopped # {}
  /\ \A t \in stopped : ~Has(activeTimers, t)
  /\ \E d \in Days, cat \in Categories : dailyStats[d][cat] > 0
  /\ out = {}

\* What the TimerState of `tab` in the stored timer map counts for `category`
LiveOf(tab, category) ==
  IF Has(activeTimers, tab) /\ activeTimers[tab].category = category
    THEN activeTimers[tab].totalTimeMs
           + (IF activeTimers[tab].startTime # NULL
                THEN now - activeTimers[tab].startTime ELSE 0)
    ELSE 0

RECURSIVE LiveSum(_, _)
LiveSum(S, category) ==
  IF S = {} THEN 0
  ELSE LET tab == CHOOSE x \in S : TRUE
       IN LiveOf(tab, category) + LiveSum(S \ {tab}, category)

\* C25: todaysTotals: the totals a sweep gets from getTodaysTotalStats are,
\* for every category, the DailyStats entry stored under the date key of the
\* call plus the live time of every TimerState of that category in the
\* stored timer map (totalTimeMs, plus Date.now() - startTime when running);
\* the total is 0 for a category with no folded time and no TimerState; and
\* the over-limit decision of a startTimer is taken on these same totals of
\* the present store.
C25_TodaysTotals ==
  [][\A c \in Pending :
       (c.pc = "gt2" /\ Stepped(c)) =>
         /\ (c.h = "proactivelyCheckLimits") =>
              \E d \in BagToSet(inflight') :
                /\ d.h = c.h /\ d.pc = "pc_get"
                /\ \A cat \in Categories :
                     /\ d.total[cat] = dailyStats[c.today][cat] + LiveSum(Tabs, cat)
                     /\ (dailyStats[c.today][cat] = 0
                           /\ \A t \in Tabs : activeTimers[t].category # cat)
                          => d.total[cat] = 0
         /\ (c.h = "startTimer") =>
              LET over == /\ userSettings.limitsInMs[c.cat] # NULL
                          /\ dailyStats[c.today][c.cat] + LiveSum(Tabs, c.cat)
                               >= userSettings.limitsInMs[c.cat]
              IN \E d \in BagToSet(inflight') :
                   /\ d.h = c.h /\ d.tab = c.tab
                   /\ d.pc = IF over THEN "st_ov_get" ELSE "st_get"
    ]_vars

\* C25 witness: a sweep holds totals in which a category has both time
\* folded into today's DailyStats and a running TimerState adding live time.
C25_Witness ==
  \E c \in Pending, cat \in Categories :
    /\ c.h = "proactivelyCheckLimits" /\ c.pc = "pc_get"
    /\ dailyStats[c.today][cat] > 0
    /\ \E t \in Running(activeTimers) :
         activeTimers[t].category = cat /\ now > activeTimers[t].startTime
    /\ c.total[cat] > dailyStats[c.today][cat]

\* The tabs of a timer map whose category the sweep's totals put at or over
\* the budget in force
SweepHit(c, timers) ==
  {t \in Tabs : /\ Has(timers, t)
                /\ Budget(timers[t].category) # NULL
                /\ c.total[timers[t].category] >= Budget(timers[t].category)}

\* C26: sweep scope: with the totals it computed and the timer map it then
\* read, a sweep visits, in order, exactly the TimerStates (running, paused
\* or tainted) whose category is at or over budget and sends blockVideo to
\* each; it sends nothing to any other tab and its writes leave every
\* TimerState of an under-budget category as it was; when no TimerState is
\* of a category at or over budget it ends at once, writing and sending
\* nothing.
C26_SweepScope ==
  [][\A c \in Pending :
       (c.h = "proactivelyCheckLimits" /\ c.pc # "gt1" /\ c.pc # "gt2" /\ Stepped(c)) =>
         LET rest == IF c.pc = "pc_get" THEN SweepHit(c, activeTimers)
                     ELSE {t \in SweepHit(c, c.timers) : t > c.cur}
             pushes == {m \in out' : m.kind = "tabs.sendMessage"}
             goesOn == \E d \in BagToSet(inflight') :
                         /\ d.h = c.h /\ d.pc = "p_get" /\ d.total = c.total
                         /\ d.cur \in rest /\ \A t \in rest : d.cur <= t
                         /\ d.timers = IF c.pc = "pc_get" THEN activeTimers ELSE c.timers
         IN /\ UNCHANGED <<dailyStats, lastRunDate, savedSettings>>
            /\ \A u \in Tabs :
                 (Has(activeTimers, u) /\ u \notin SweepHit(c, activeTimers))
                   => activeTimers'[u] = activeTimers[u]
            /\ out' = pushes
            /\ CASE c.pc = "pc_get" ->
                      /\ UNCHANGED activeTimers
                      /\ pushes = {}
                      /\ IF rest = {} THEN inflight' = inflight (-) SetToBag({c})
                                      ELSE goesOn
                 [] c.pc = "p_get" /\ Truthy(activeTimers[c.cur].startTime) ->
                      /\ UNCHANGED activeTimers
                      /\ pushes = {}
                      /\ c.cur \in SweepHit(c, c.timers)
                 [] OTHER ->
                      /\ c.cur \in SweepHit(c, c.timers)
                      /\ \E delivered \in BOOLEAN : pushes = {PushBlock(c.cur, delivered)}
                      /\ IF rest = {} THEN inflight' = inflight (-) SetToBag({c})
                                      ELSE goesOn
    ]_vars

\* C26 witness: every handler has completed; a sweep has just sent blockVideo
\* to a paused tab of a category at its budget, and a tab of a category
\* under budget is still running.
C26_Witness ==
  /\ Idle
  /\ \E t \in Tabs, u \in Tabs, delivered \in BOOLEAN :
       /\ out = {PushBlock(t, delivered)}
       /\ Has(activeTimers, t) /\ activeTimers[t].startTime = NULL
       /\ AtOrOver(Today(now), activeTimers[t].category)
       /\ u \in Running(activeTimers)
       /\ ~AtOrOver(Today(now), activeTimers[u].category)

\* C27: delivery failure leaves state alone: a step that pushes blockVideo
\* leaves the store in the state its continuation alone determines, whether
\* the command is delivered or lost: after an over-limit startTimer the timer
\* map is the handler's copy with the tab's tainted TimerState and the
\* answer {success: true, blocked: true} is sent; after a pause of the sweep
\* it is the pause's copy; otherwise it is unchanged; DailyStats and the
\* other keys are never touched.  A lost command leaves the overlay as it was.
C27_DeliveryFailure ==
  [][\A c \in Pending, t \in Tabs, delivered \in BOOLEAN :
       (Stepped(c) /\ PushBlock(t, delivered) \in out') =>
         /\ UNCHANGED <<dailyStats, lastRunDate, savedSettings>>
         /\ CASE c.pc = "st_ov_save" ->
                   /\ t = c.tab
                   /\ activeTimers' = c.timers
                   /\ activeTimers'[t] = [category |-> c.cat, totalTimeMs |-> 0,
                                          startTime |-> NULL]
                   /\ out' = {PushBlock(t, delivered),
                              Response("startTimer", t, "blocked:true")}
                   /\ inflight' = inflight (-) SetToBag({c})
              [] c.pc = "p_save" -> activeTimers' = c.copy
              [] OTHER -> UNCHANGED activeTimers
         /\ ~delivered => blocked' = blocked
    ]_vars

\* C27 witness: the blockVideo of an over-limit startTimer was lost; the tab's
\* tainted TimerState is in the store, the caller has its answer and the
\* page shows no overlay.
C27_Witness ==
  \E t \in Tabs :
    /\ PushBlock(t, FALSE) \in out
    /\ Response("startTimer", t, "blocked:true") \in out
    /\ Has(activeTimers, t)
    /\ activeTimers[t].totalTimeMs = 0 /\ activeTimers[t].startTime = NULL
    /\ ~blocked[t]

\* C28: blocked start leaves other surfaces alone: no step of a startTimer
\* handler that ends with the answer blocked: true changes the TimerState of
\* another tab: the copy it taints and the map it stores have every other
\* tab's category, totalTimeMs and startTime as the store has them.
C28_BlockedStartFrame ==
  [][\A c \in Pending :
       (c.h = "startTimer" /\ Stepped(c)
          /\ c.pc \notin {"st_get", "pa_get", "pa_save", "st_save"}) =>
         /\ \A u \in Tabs \ {c.tab} : activeTimers'[u] = activeTimers[u]
         /\ (c.pc = "st_ov_get") =>
              \E d \in BagToSet(inflight') :
                /\ d.h = c.h /\ d.tab = c.tab /\ d.pc = "st_ov_save"
                /\ \A u \in Tabs \ {c.tab} : d.timers[u] = activeTimers[u]
         /\ (Response("startTimer", c.tab, "blocked:true") \in out') =>
              /\ c.pc = "st_ov_save"
              /\ \A u \in Tabs \ {c.tab} : activeTimers'[u] = c.timers[u]
    ]_vars

\* C28 witness: a start was answered blocked while another tab holds a paused
\* TimerState with time on it.
C28_Witness ==
  \E b \in Tabs, a \in Tabs :
    /\ a # b
    /\ Response("startTimer", b, "blocked:true") \in out
    /\ Has(activeTimers, a)
    /\ activeTimers[a].startTime = NULL /\ activeTimers[a].totalTimeMs > 0

\* C29: concurrent folds are both kept: every step that changes DailyStats
\* is the fold of a stop; and the fold of a stop for a tab that no other stop,
\* finished or in flight, has dealt with adds the final totalTimeMs of the
\* TimerState being stopped to today's entry of its category as the store
\* holds it at that moment, so that no entry decreases and two interleaved
\* stops of different tabs add the sum of their times.
C29_ConcurrentFolds ==
  [][/\ (dailyStats' # dailyStats) =>
          \E c \in Pending :
            Stepped(c) /\ c.h = "stopTimerAndSave" /\ c.pc = "sp_fold"
     /\ \A c \in Pending :
          (/\ Stepped(c) /\ c.h = "stopTimerAndSave" /\ c.pc = "sp_fold"
           /\ c.tab \notin stopped
           /\ \A d \in Pending :
                (d.h = "stopTimerAndSave" /\ d.tab = c.tab)
                  => (d = c /\ CopiesIn(c, inflight) = 1)) =>
            dailyStats' =
              [dailyStats EXCEPT ![c.today][c.cat] = @ + c.timers[c.tab].totalTimeMs]
    ]_vars

\* C30: process death during stop: with the service worker possibly
\* destroyed inside a stop, once the handler of a later event has completed
\* no time is counted twice: on the first day, for every category, neither
\* todaysTotals nor today's DailyStats exceeds the time the store showed the
\* category's timers running.
C30_DeathDuringStop ==
  [][\A c \in Pending :
       (Stepped(c) /\ Idle' /\ Today(now) = Today(StartMs)) =>
         \A cat \in Categories :
           /\ dailyStats'[Today(now)][cat] + LiveSum(Tabs, cat)' <= ran'[cat]
           /\ dailyStats'[Today(now)][cat] <= ran'[cat]
    ]_vars

\* C31: closed surfaces leave no TimerState: a tab whose stop has completed
\* and which has no TimerState in the stored timer map gets one again only
\* by a write of a startTimer for that same tab; no write of another
\* operation that read the timer map earlier brings the TimerState back.
C31_ClosedSurfaces ==
  [][\A t \in stopped :
       (~Has(activeTimers, t) /\ Has(activeTimers', t)) =>
         \E c \in Pending : Stepped(c) /\ c.h = "startTimer" /\ c.tab = t
    ]_vars

\* C32: past days are immutable: no step changes the DailyStats record of a
\* day that lies before the current date, and a step that writes DailyStats
\* writes the record of the date current at that moment.
C32_PastDaysImmutable ==
  [][\A d \in Days :
       (dailyStats'[d] # dailyStats[d]) => d = Today(now)
    ]_vars

\* the category has no limit in the settings cache (limitsInMs[category] undefined)
Unenforced(category) == category \in Categories /\ userSettings.limitsInMs[category] = NULL

\* C33: unenforced buckets: for a category without limit in the loaded
\* settings, whatever its total is, the check of a startTimer goes on to the
\* starting path and no startTimer is answered blocked, the check of a
\* resumeTimer goes on to the write that restarts the clock and pushes
\* nothing, the check of a checkMyStatus answers "unblockVideo" and writes
\* nothing, and the sweep neither selects, pauses nor pushes to a TimerState
\* of that category.
C33_UnenforcedBuckets ==
  [][\A c \in Pending :
       Stepped(c) =>
         /\ (c.pc = "gt2" /\ c.h = "startTimer" /\ Unenforced(c.cat)) =>
              /\ [c EXCEPT !.pc = "st_get"] \in BagToSet(inflight')
              /\ out' = {} /\ UNCHANGED store
         /\ (c.h = "startTimer" /\ Unenforced(c.cat)) =>
              Response("startTimer", c.tab, "blocked:true") \notin out'
         /\ (c.pc = "gt2" /\ c.h = "resumeTimer" /\ Unenforced(c.cat)) =>
              /\ \E d \in BagToSet(inflight') :
                   /\ d.h = c.h /\ d.tab = c.tab /\ d.pc = "rs_save"
                   /\ d.timers[c.tab].startTime = now
              /\ out' = {} /\ UNCHANGED store
         /\ (c.pc = "gt2" /\ c.h = "checkMyStatus" /\ Unenforced(c.cat)) =>
              /\ out' = {Response("checkMyStatus", c.tab, "unblockVideo")}
              /\ inflight' = inflight (-) SetToBag({c})
              /\ UNCHANGED store
         /\ (c.h = "proactivelyCheckLimits") =>
              /\ \A d \in BagToSet(inflight') :
                   (d.h = c.h /\ d.pc \in {"p_get", "p_save"}) =>
                     ~Unenforced(d.timers[d.cur].category)
              /\ \A t \in Tabs :
                   (Has(activeTimers, t) /\ Unenforced(activeTimers[t].category)) =>
                     /\ activeTimers'[t] = activeTimers[t]
                     /\ \A delivered \in BOOLEAN : PushBlock(t, delivered) \notin out'
    ]_vars

\* C33 witness: a tab of a category without limit, whose total is at or past
\* what the default limit would be, has just been answered "unblockVideo".
C33_Witness ==
  \E t \in Tabs :
    /\ Has(activeTimers, t)
    /\ Unenforced(activeTimers[t].category)
    /\ 2 * TotalsOn(Today(now))[activeTimers[t].category]
         >= DEFAULT_LIMITS[activeTimers[t].category] * MIN_TO_MS
    /\ Response("checkMyStatus", t, "unblockVideo") \in out

\* What checkMyStatus answers to a tab holding `category` when it finds `totals`
PullBlocks(totals, category) ==
  Answer(OverLimit(totals[category], userSettings.limitsInMs[category])) = "blockVideo"

\* C34: push and pull agree: on the totals it computed and the timer map it
\* read, the sweep selects for blockVideo exactly the tabs to which
\* checkMyStatus would answer "blockVideo" on the same values; a startTimer
\* takes its blocking branch exactly when checkMyStatus would answer
\* "blockVideo" to a tab holding that category on the same store; and
\* checkMyStatus itself decides on those totals.
C34_PushPullAgree ==
  [][\A c \in Pending :
       Stepped(c) =>
         LET totals == [cat \in Categories |->
                          dailyStats[c.today][cat] + LiveSum(Tabs, cat)]
         IN /\ (c.h = "proactivelyCheckLimits" /\ c.pc = "gt2") =>
                 \E d \in BagToSet(inflight') :
                   d.h = c.h /\ d.pc = "pc_get" /\ d.total = totals
            /\ (c.h = "proactivelyCheckLimits" /\ c.pc = "pc_get") =>
                 LET pull == {t \in Tabs : /\ Has(activeTimers, t)
                                           /\ PullBlocks(c.total, activeTimers[t].category)}
                 IN IF pull = {}
                      THEN inflight' = inflight (-) SetToBag({c}) /\ out' = {}
                      ELSE \E d \in BagToSet(inflight') :
                             /\ d.h = c.h /\ d.pc = "p_get"
                             /\ d.cur \in pull /\ \A t \in pull : d.cur <= t
                             /\ \A t \in Tabs :
                                  Has(activeTimers, t) =>
                                    (activeTimers[t].category \in d.over <=> t \in pull)
            /\ (c.h = "proactivelyCheckLimits" /\ c.pc \in {"p_get", "p_save"}) =>
                 /\ PullBlocks(c.total, c.timers[c.cur].category)
                 /\ \A t \in Tabs, delivered \in BOOLEAN :
                      PushBlock(t, delivered) \in out' => t = c.cur
            /\ (c.h = "startTimer" /\ c.pc = "gt2") =>
                 \E d \in BagToSet(inflight') :
                   /\ d.h = c.h /\ d.tab = c.tab
                   /\ d.pc = IF PullBlocks(totals, c.cat) THEN "st_ov_get" ELSE "st_get"
            /\ (c.h = "checkMyStatus" /\ c.pc = "gt2") =>
                 IF PullBlocks(totals, c.cat)
                   THEN \E d \in BagToSet(inflight') :
                          d.h = c.h /\ d.pc = "p_get" /\ d.cur = c.tab
                   ELSE out' = {Response("checkMyStatus", c.tab, "unblockVideo")}
    ]_vars

\* C34 witness: the sweep's blockVideo has reached a tab, the sweep goes on
\* to a second tab, and checkMyStatus would answer "blockVideo" to both on
\* the sweep's totals.
C34_Witness ==
  \E c \in Pending, t \in Tabs :
    /\ c.h = "proactivelyCheckLimits" /\ c.pc = "p_get" /\ t < c.cur
    /\ out = {PushBlock(t, TRUE)}
    /\ blocked[t]
    /\ Has(activeTimers, t) /\ Has(activeTimers, c.cur)
    /\ PullBlocks(c.total, activeTimers[t].category)
    /\ PullBlocks(c.total, activeTimers[c.cur].category)

\* the tab a continuation works for
Surface(c) == IF c.pc \in {"p_get", "p_save"} THEN c.cur ELSE c.tab

\* C35: a block is never undone by a stale write: when a tab's page has been
\* told to block and its TimerState is stored as paused with its time folded
\* in, its category being at or over budget, no step of a handler working for
\* another tab stores that TimerState as running.
C35_BlockNotUndone ==
  [][\A c \in Pending, t \in Tabs :
       (/\ Stepped(c) /\ Surface(c) # t
        /\ blocked[t]
        /\ Has(activeTimers, t)
        /\ activeTimers[t].startTime = NULL /\ activeTimers[t].totalTimeMs > 0
        /\ AtOrOver(Today(now), activeTimers[t].category)) =>
         ~(Has(activeTimers', t) /\ activeTimers'[t].startTime # NULL)
    ]_vars

\* a stop has written its fold into DailyStats and has not yet saved the
\* timer map without its tab
FoldedNotDeleted(s) ==
  s.h = "stopTimerAndSave" /\ s.pc = "sp_save" /\ s.saved # ZeroStats

\* C36: no double counting while a stop is in flight: the totals that
\* getTodaysTotalStats returns to another handler while a stop is between
\* its write of DailyStats and its removal of the TimerState do not exceed,
\* for any category, the time the store showed that category's timers
\* running (first day).
C36_NoDoubleCounting ==
  [][\A c \in Pending :
       (/\ Stepped(c) /\ c.pc = "gt2"
        /\ c.today = Today(StartMs) /\ Today(now) = Today(StartMs)
        /\ \E s \in Pending : FoldedNotDeleted(s)) =>
         \A cat \in Categories : c.saved[cat] + LiveSum(Tabs, cat) <= ran[cat]
    ]_vars

\* C37: taint before push: the step of a startTimer that sends blockVideo
\* or answers blocked: true is the one that follows its save of the timer
\* map, and the store then holds the tab's tainted TimerState; the
\* destruction of the service worker leaves the store as it is; a TimerState
\* leaves the timer map only by the save of a stop for its tab; and a
\* checkMyStatus that finds the TimerState goes on to the totals instead of
\* answering as for a tab without category.
C37_TaintBeforePush ==
  [][/\ \A c \in Pending :
          (Stepped(c) /\ c.h = "startTimer"
             /\ \E m \in out' : m.kind = "tabs.sendMessage" \/ m.msg = "blocked:true") =>
            /\ c.pc = "st_ov_save"
            /\ activeTimers'[c.tab] = [category |-> c.cat, totalTimeMs |-> 0,
                                       startTime |-> NULL]
            /\ Response("startTimer", c.tab, "blocked:true") \in out'
            /\ \E delivered \in BOOLEAN : PushBlock(c.tab, delivered) \in out'
     /\ (Evicted \in out') => UNCHANGED store
     /\ \A t \in Tabs :
          (Has(activeTimers, t) /\ ~Has(activeTimers', t)) =>
            \E c \in Pending :
              Stepped(c) /\ c.h = "stopTimerAndSave" /\ c.tab = t /\ c.pc = "sp_save"
     /\ \A c \in Pending :
          (Stepped(c) /\ c.pc = "cs_get" /\ Has(activeTimers, c.tab)) =>
            /\ \E d \in BagToSet(inflight') :
                 d.h = "checkMyStatus" /\ d.tab = c.tab /\ d.pc = "gt1"
            /\ out' = {}
    ]_vars

\* C37 witness: the service worker was destroyed after an over-limit start
\* whose blockVideo reached the page; the tab's tainted TimerState is in the
\* store.
C37_Witness ==
  /\ out = {Evicted}
  /\ userSettings = EmptyCache
  /\ \E t \in Tabs :
       /\ blocked[t]
       /\ Has(activeTimers, t)
       /\ activeTimers[t].totalTimeMs = 0 /\ activeTimers[t].startTime = NULL

\* C38: read-only queries: neither the arrival of a getLiveStats or
\* getTabStatus request nor any step of its handler (the loading of the
\* settings and getTodaysTotalStats included) changes the stored timer map,
\* DailyStats, lastRunDate or the stored settings.
C38_ReadOnlyQueries ==
  [][/\ \A c \in Pending :
          (Stepped(c) /\ c.h \in {"getLiveStats", "getTabStatus"}) => UNCHANGED store
     /\ (\E d \in BagToSet(inflight') :
           /\ d.h \in {"getLiveStats", "getTabStatus"}
           /\ CopiesIn(d, inflight') > CopiesIn(d, inflight)) => UNCHANGED store
     /\ (\E m \in out' : m.kind = "sendResponse" /\ m.h \in {"getLiveStats", "getTabStatus"})
          => UNCHANGED store
    ]_vars

\* C38 witness: getLiveStats has been answered while a timer is running with
\* time on its clock and DailyStats holds folded time.
C38_Witness ==
  /\ \E m \in out : m.kind = "sendResponse" /\ m.h = "getLiveStats"
  /\ \E t \in Running(activeTimers) : now > activeTimers[t].startTime
  /\ \E d \in Days, cat \in Categories : dailyStats[d][cat] > 0

====
